---- MODULE Spec2Model ----
(***************************************************************************)
(* pixcan: the image-moderation Lambda of src/lambda/handler.py.           *)
(*                                                                         *)
(* Strings and byte strings are sequences of tokens.  A token is one       *)
(* character or byte, except that the literal words the code searches for  *)
(* ("boundary", "Content-Disposition", "filename", ...) are one token      *)
(* each.  CR and LF are separate tokens, so the four-byte header separator *)
(* and the two-byte trailer are searched for as the code searches them.    *)
(*                                                                         *)
(* Python values are records [tag, val]: tag says what the value is        *)
(* ("unbound" for a local that was never assigned, "None", "str",          *)
(* "bytes"), val holds the tokens.                                         *)
(***************************************************************************)
EXTENDS Integers, Sequences, FiniteSets, TLC

\* ------------------------------------------------------------------ bounds
\* The classifier returns at most MaxLabels moderation labels.
MaxLabels == 2
\* uuid4 draws the identifier from NumIds fresh values.
NumIds == 2

\* ------------------------------------------------------- program constants
\* MinConfidence passed to detect_moderation_labels.
MinConfidence == 70

\* ---------------------------------------------------------- Python values
Unbound == [tag |-> "unbound", val |-> <<>>]
None == [tag |-> "None", val |-> <<>>]
Str(s) == [tag |-> "str", val |-> s]
Bytes(b) == [tag |-> "bytes", val |-> b]

\* Python truthiness of a str, bytes or None value (`if not x`).
Truthy(x) == x.tag \in {"str", "bytes"} /\ Len(x.val) > 0

CR == "CR"
LF == "LF"
CRLF == <<CR, LF>>

\* ------------------------------------------------------- sequence helpers
\* s starts with p (str.startswith / bytes.startswith).
StartsWith(s, p) == Len(s) >= Len(p) /\ SubSeq(s, 1, Len(p)) = p

\* s ends with p (bytes.endswith).
EndsWith(s, p) == Len(s) >= Len(p) /\ SubSeq(s, Len(s) - Len(p) + 1, Len(s)) = p

\* 0-based index of the first occurrence of p in s, -1 when there is none
\* (bytes.find, str.find).
Find(s, p) ==
    LET hits == {i \in 1..(Len(s) - Len(p) + 1) : SubSeq(s, i, i + Len(p) - 1) = p}
    IN IF hits = {} THEN -1
       ELSE (CHOOSE i \in hits : \A j \in hits : i <= j) - 1

\* p occurs in s (the `in` operator on bytes).
Contains(s, p) == Find(s, p) # -1

\* s.split(sep): the pieces of s between the non-overlapping occurrences of
\* sep, scanning from the left; sep is not empty.
RECURSIVE Split(_, _)
Split(s, sep) ==
    LET i == Find(s, sep)
    IN IF i = -1 THEN <<s>>
       ELSE <<SubSeq(s, 1, i)>> \o Split(SubSeq(s, i + Len(sep) + 1, Len(s)), sep)

\* s.split(sep, 1)[1]: what follows the first occurrence of sep (sep occurs).
AfterFirst(s, sep) == SubSeq(s, Find(s, sep) + Len(sep) + 1, Len(s))

\* s.strip(chars): every leading and every trailing token in chars removed.
RECURSIVE LStrip(_, _)
LStrip(s, chars) ==
    IF s # <<>> /\ Head(s) \in chars THEN LStrip(Tail(s), chars) ELSE s

RECURSIVE RStrip(_, _)
RStrip(s, chars) ==
    IF s # <<>> /\ s[Len(s)] \in chars THEN RStrip(SubSeq(s, 1, Len(s) - 1), chars) ELSE s

Strip(s, chars) == RStrip(LStrip(s, chars), chars)

\* The characters str.strip() removes.
Whitespace == {" ", "\t", CR, LF}

RECURSIVE Concat(_)
Concat(ss) == IF ss = <<>> THEN <<>> ELSE Head(ss) \o Concat(Tail(ss))

\* str.encode("utf-8"): an ASCII character is one byte, itself; the one
\* non-ASCII character of the model is two bytes.
Utf8Char(c) == IF c = "e-acute" THEN <<"C3", "A9">> ELSE <<c>>

Utf8Encode(s) == Concat([i \in 1..Len(s) |-> Utf8Char(s[i])])

\* ------------------------------------------------------------- base64
\* A base64 string is a sequence of quanta: one token stands for the four
\* characters that encode up to three bytes.  B64Table gives the bytes of
\* each quantum of the model.
B64Table ==
    [q \in {"Q1", "Q2", "Q3", "Q4", "Q5", "Q7", "Q8"} |->
        CASE q = "Q1" -> <<"-", "-", "x">>
          [] q = "Q2" -> <<CR, LF, "Content-Disposition">>
          [] q = "Q3" -> <<"filename", CR, LF>>
          [] q = "Q4" -> <<CR, LF, "a">>
          [] q = "Q5" -> <<"b", CR, LF>>
          [] q = "Q7" -> <<"-", "-", CR>>
          [] q = "Q8" -> <<LF>>]

\* Characters outside the base64 alphabet, which b64decode discards.
B64Discarded == {" ", CR, LF, "-", "\""}

\* The string decodes: after discarding, only whole quanta are left.  Any
\* other character leaves a group that is not a multiple of four characters,
\* for which b64decode raises binascii.Error (incorrect padding).
B64Valid(s) == \A i \in 1..Len(s) : s[i] \in DOMAIN B64Table \cup B64Discarded

\* base64.b64decode(s) for a string that decodes.
B64Decode(s) ==
    Concat([i \in 1..Len(s) |->
        IF s[i] \in DOMAIN B64Table THEN B64Table[s[i]] ELSE <<>>])

\* ------------------------------------------------ parse_multipart_form_data
\* The boundary the loop of lines 22-27 leaves: the remainder of the first
\* stripped segment that starts with boundary=, quotes stripped; None when no
\* segment does.
RECURSIVE BoundaryOf(_)
BoundaryOf(segments) ==
    IF segments = <<>> THEN None
    ELSE LET part == Strip(Head(segments), Whitespace)
         IN IF StartsWith(part, <<"boundary", "=">>)
            THEN Str(Strip(AfterFirst(part, <<"=">>), {"\""}))
            ELSE BoundaryOf(Tail(segments))

\* Faulty variant: falls back on a default boundary when the header names none.
ExtractBoundary_Default(content_type) ==
    LET b == BoundaryOf(Split(content_type, <<";">>))
    IN IF Truthy(b) THEN b ELSE Str(<<"x">>)

\* Faulty variant: the segments are not stripped of whitespace.
ExtractBoundary_Untrimmed(content_type) ==
    LET segments == Split(content_type, <<";">>)
        hits == {i \in 1..Len(segments) : StartsWith(segments[i], <<"boundary", "=">>)}
    IN IF hits = {} THEN None
       ELSE Str(Strip(AfterFirst(segments[CHOOSE i \in hits : \A j \in hits : i <= j],
                                 <<"=">>), {"\""}))

\* Lines 22-27: the boundary token of a Content-Type value.
ExtractBoundary(content_type) == BoundaryOf(Split(content_type, <<";">>))

\* The selection predicate of line 36.
IsFilePart(part) ==
    Contains(part, <<"Content-Disposition">>) /\ Contains(part, <<"filename">>)

\* Lines 38-44 for one part that has a header separator.
FileContent(part) ==
    LET header_end == Find(part, CRLF \o CRLF)
        file_content == SubSeq(part, header_end + 4 + 1, Len(part))
    IN IF EndsWith(file_content, CRLF)
       THEN SubSeq(file_content, 1, Len(file_content) - 2)
       ELSE file_content

\* Faulty variant: the scan stops at the first part that has both substrings,
\* whether or not it has a header separator.
RECURSIVE ScanParts_StopsAtFirstMatch(_)
ScanParts_StopsAtFirstMatch(parts) ==
    IF parts = <<>> THEN None
    ELSE IF IsFilePart(Head(parts))
         THEN IF Find(Head(parts), CRLF \o CRLF) # -1
              THEN Bytes(FileContent(Head(parts)))
              ELSE None
         ELSE ScanParts_StopsAtFirstMatch(Tail(parts))

\* The loop of lines 35-46 over the parts.
RECURSIVE ScanParts(_)
ScanParts(parts) ==
    IF parts = <<>> THEN None
    ELSE IF IsFilePart(Head(parts)) /\ Find(Head(parts), CRLF \o CRLF) # -1
         THEN Bytes(FileContent(Head(parts)))
         ELSE ScanParts(Tail(parts))

\* The body of the try block, lines 22-46: the value returned, or the
\* exception raised, and the local boundary as lines 22-27 left it.
ParseTry(body, content_type) ==
    LET boundary == ExtractBoundary(content_type)
    IN IF ~Truthy(boundary)
       THEN [raised |-> TRUE, error |-> "No boundary found in Content-Type header",
             value |-> None, boundary |-> boundary]
       ELSE [raised |-> FALSE, error |-> "",
             value |-> ScanParts(Split(body, Utf8Encode(<<"-", "-">> \o boundary.val))),
             boundary |-> boundary]

\* parse_multipart_form_data(body, content_type): the except clause of lines
\* 47-49 logs whatever was raised and returns None.
parse_multipart_form_data(body, content_type) ==
    LET r == ParseTry(body, content_type)
    IN IF r.raised THEN None ELSE r.value

\* ------------------------------------------------------------ the inputs
\* Content-Type header values.
CtPlain == <<"multipart/form-data", ";", " ", "boundary", "=", "x">>
CtQuoted == <<"multipart/form-data", ";", " ", "boundary", "=", "\"", "x", "\"">>
CtNoBoundary == <<"multipart/form-data">>
CtCharsetOnly == <<"multipart/form-data", ";", " ", "charset", "=", "x">>
CtEmptyBoundary == <<"multipart/form-data", ";", " ", "boundary", "=">>

\* event['headers']: tag "missing" when the event has no usable headers
\* entry, else the dict, of which only the two spellings matter; a spelling
\* the dict lacks is None, as dict.get returns it.
HeadersMissing == [tag |-> "missing", lower |-> None, canon |-> None]
Headers(lower, canon) == [tag |-> "dict", lower |-> lower, canon |-> canon]

HeaderSet ==
    {HeadersMissing, Headers(None, None), Headers(Str(<<>>), Str(CtPlain)),
     Headers(None, Str(CtPlain))}
    \cup {Headers(Str(ct), None) :
            ct \in {CtPlain, CtQuoted, CtNoBoundary, CtCharsetOnly, CtEmptyBoundary}}

\* Multipart bodies, as bytes.
FileBody ==
    <<"-", "-", "x", CR, LF, "Content-Disposition", "filename", CR, LF, CR, LF,
      "a", "b", CR, LF, "-", "-", "x", "-", "-", CR, LF>>
FieldBody ==
    <<"-", "-", "x", CR, LF, "Content-Disposition", CR, LF, CR, LF,
      "a", CR, LF, "-", "-", "x", "-", "-", CR, LF>>
EmptyFileBody ==
    <<"-", "-", "x", CR, LF, "Content-Disposition", "filename", CR, LF, CR, LF,
      CR, LF, "-", "-", "x", "-", "-", CR, LF>>
BareEmptyFileBody ==
    <<"-", "-", "x", CR, LF, "Content-Disposition", "filename", CR, LF, CR, LF,
      "-", "-", "x", "-", "-", CR, LF>>
NonAsciiBody ==
    <<"-", "-", "x", CR, LF, "Content-Disposition", "filename", CR, LF, CR, LF,
      "e-acute", CR, LF, "-", "-", "x", "-", "-", CR, LF>>

\* FileBody in base64, and a base64 string that does not decode.
B64FileBody == <<"Q1", "Q2", "Q3", "Q4", "Q5", "Q1", "Q7", "Q8">>
B64Broken == <<"Q1", "Q2", "a", "b">>

\* (event['body'], event['isBase64Encoded']) pairs.  An Unbound body is an
\* event without a body entry; a None body is a null one.
BodySet ==
    {[body |-> Str(b), isBase64Encoded |-> FALSE] :
        b \in {FileBody, FieldBody, EmptyFileBody, BareEmptyFileBody, NonAsciiBody}}
    \cup {[body |-> Str(B64FileBody), isBase64Encoded |-> TRUE],
          [body |-> Str(B64Broken), isBase64Encoded |-> TRUE],
          [body |-> Unbound, isBase64Encoded |-> FALSE],
          [body |-> None, isBase64Encoded |-> FALSE]}

Events ==
    {[headers |-> h, body |-> b.body, isBase64Encoded |-> b.isBase64Encoded] :
        h \in HeaderSet, b \in BodySet}

\* os.environ.get('BUCKET_NAME'): unset, empty, or a bucket's name.
Environs == {None, Str(<<>>), Str(<<"pixcan-bucket">>)}

\* str(uuid.uuid4()) of the n-th fresh identifier.
Uuids == {ToString(n) : n \in 1..NumIds}

\* The identifier of an earlier invocation, whose objects may still be stored.
EarlierId == <<"0", ".jpg">>

\* What detect_moderation_labels can return as response['ModerationLabels'].
LabelNames == {"Explicit Nudity", "Violence"}
ModerationLabel == [Name : LabelNames, Confidence : {MinConfidence, 100}]
ModerationLabelLists == UNION {[1..n -> ModerationLabel] : n \in 0..MaxLabels}

\* ------------------------------------------------------ lambda_handler
Bool(b) == [tag |-> "bool", val |-> <<b>>]
List(l) == [tag |-> "list", val |-> l]

\* The locals of one invocation before any is assigned: those of
\* lambda_handler, and boundary, the local of parse_multipart_form_data.
Frame0 ==
    [bucket_name |-> Unbound, content_type |-> Unbound, body |-> Unbound,
     image_data |-> Unbound, image_id |-> Unbound, temp_key |-> Unbound,
     labels |-> Unbound, nsfw_detected |-> Unbound, final_key |-> Unbound,
     boundary |-> Unbound]

\* The outcome of the straight-line code before the first external call: the
\* locals it bound, and the error it raised ("" when it raised none).
Went(f) == [frame |-> f, error |-> ""]
Raised(f, e) == [frame |-> f, error |-> e]

\* Faulty variant: uploads straight into the clear partition.
TempKey_InSafe(image_id) == <<"safe", "/">> \o image_id

\* Line 81.
TempKey(image_id) == <<"uploads", "/">> \o image_id

\* Lines 78-81: the identifier and the staging key.
NameImage(f, uuid) ==
    LET image_id == <<uuid, ".jpg">>
    IN Went([f EXCEPT !.image_id = Str(image_id),
                      !.temp_key = Str(TempKey(image_id))])

\* Faulty variant: does not check what the extractor returned.
ParseBody_Unchecked(f, uuid) ==
    NameImage([f EXCEPT !.image_data =
                  parse_multipart_form_data(f.body.val, f.content_type.val)], uuid)

\* Faulty variant: only None counts as no file (`if image_data is None`).
ParseBody_NoneOnly(f, uuid) ==
    LET image_data == parse_multipart_form_data(f.body.val, f.content_type.val)
        g == [f EXCEPT !.image_data = image_data]
    IN IF image_data.tag = "None"
       THEN Raised(g, "No file found in multipart/form-data payload")
       ELSE NameImage(g, uuid)

\* Lines 72-75: extraction, and the check of its result.
ParseBody(f, uuid) ==
    LET image_data == parse_multipart_form_data(f.body.val, f.content_type.val)
        g == [f EXCEPT !.image_data = image_data,
                       !.boundary = ParseTry(f.body.val, f.content_type.val).boundary]
    IN IF ~Truthy(image_data)
       THEN Raised(g, "No file found in multipart/form-data payload")
       ELSE NameImage(g, uuid)

\* Lines 65-69: the body, decoded from its transport encoding.
DecodeBody(f, event, uuid) ==
    LET body == IF event.body.tag = "unbound" THEN Str(<<>>) ELSE event.body
        g == [f EXCEPT !.body = body]
    IN IF event.isBase64Encoded
       THEN IF body.tag = "None"
            THEN Raised(g, "argument should be a bytes-like object or ASCII string, not 'NoneType'")
            ELSE IF ~B64Valid(body.val)
            THEN Raised(g, "Incorrect padding")
            ELSE ParseBody([g EXCEPT !.body = Bytes(B64Decode(body.val))], uuid)
       ELSE IF body.tag = "None"
            THEN Raised(g, "'NoneType' object has no attribute 'encode'")
            ELSE ParseBody([g EXCEPT !.body = Bytes(Utf8Encode(body.val))], uuid)

\* Lines 61-63: the Content-Type header under either spelling.
ReadContentType(f, event, uuid) ==
    IF event.headers.tag = "missing"
    THEN Raised(f, "'headers'")
    ELSE LET content_type ==
                 IF Truthy(event.headers.lower) THEN event.headers.lower
                 ELSE event.headers.canon
             g == [f EXCEPT !.content_type = content_type]
         IN IF ~Truthy(content_type)
            THEN Raised(g, "Missing Content-Type header")
            ELSE DecodeBody(g, event, uuid)

\* Faulty variant: does not check the configuration.
Prologue_NoConfigCheck(event, environ, uuid) ==
    ReadContentType([Frame0 EXCEPT !.bucket_name = environ], event, uuid)

\* Lines 56-81: everything lambda_handler does before put_object, for an
\* event, the environment's BUCKET_NAME and the uuid drawn at line 78.
Prologue(event, environ, uuid) ==
    LET f == [Frame0 EXCEPT !.bucket_name = environ]
    IN IF ~Truthy(environ)
       THEN Raised(f, "BUCKET_NAME environment variable not set")
       ELSE ReadContentType(f, event, uuid)

\* Faulty variant: never sets the flag.
NsfwDetected_Never(labels) == FALSE

\* Lines 100-103.
NsfwDetected(labels) == labels # <<>>

\* Line 108.
FinalKey(nsfw_detected, image_id) ==
    <<IF nsfw_detected THEN "nsfw" ELSE "safe", "/">> \o image_id

\* Faulty variant: the names come out in reverse order.
LabelNamesOf_Reversed(moderation_labels) ==
    [i \in 1..Len(moderation_labels) |->
        moderation_labels[Len(moderation_labels) + 1 - i].Name]

\* Line 101.
LabelNamesOf(moderation_labels) ==
    [i \in 1..Len(moderation_labels) |-> moderation_labels[i].Name]

\* The response not yet returned.
NoResponse == [statusCode |-> 0, headers |-> {}, body |-> <<>>]

\* Lines 122-137: the success response; its body is the dict json.dumps
\* serialises.
SuccessResponse(f) ==
    [statusCode |-> 200,
     headers |-> {<<"Content-Type", "application/json">>,
                  <<"Access-Control-Allow-Origin", "*">>,
                  <<"Access-Control-Allow-Headers", "Content-Type">>,
                  <<"Access-Control-Allow-Methods", "POST,OPTIONS">>},
     body |-> [file_name |-> f.image_id.val,
               nsfw_detected |-> f.nsfw_detected.val[1],
               labels |-> f.labels.val,
               message |-> <<"Image moved to ",
                             IF f.nsfw_detected.val[1] THEN "nsfw" ELSE "safe",
                             " folder">>,
               final_location |-> f.final_key.val]]

\* Faulty variant: lets the error escape: nothing is returned.
FailureResponse_Escapes(error) == NoResponse

\* Lines 139-151: the except clause turns the error into the failure response.
FailureResponse(error) ==
    [statusCode |-> 500,
     headers |-> {<<"Content-Type", "application/json">>,
                  <<"Access-Control-Allow-Origin", "*">>},
     body |-> [error |-> error, message |-> "Failed to process image"]]

\* Faulty variant: deletes the staged object before it copies it.
NextStep_DeleteBeforeCopy(stage) ==
    CASE stage = "put" -> "classify"
      [] stage = "classify" -> "delete"
      [] stage = "delete" -> "copy"
      [] stage = "copy" -> "done"

\* The order of the external calls in lambda_handler: the statement control
\* reaches when the call of a stage returns.
NextStep(stage) ==
    CASE stage = "put" -> "classify"
      [] stage = "classify" -> "copy"
      [] stage = "copy" -> "delete"
      [] stage = "delete" -> "done"

\* --------------------------------------------------- the storage service
Prefixes == {"uploads", "nsfw", "safe"}
ImageIds == {<<u, ".jpg">> : u \in Uuids} \cup {EarlierId}
Keys == {<<p, "/">> \o id : p \in Prefixes, id \in ImageIds}

NoObject == [exists |-> FALSE, Body |-> <<>>, ContentType |-> ""]
Object(Body, ContentType) == [exists |-> TRUE, Body |-> Body, ContentType |-> ContentType]

\* The bucket after s3_client.put_object(Key, Body, ContentType) returned.
put_object(bucket, Key, Body, ContentType) ==
    [bucket EXCEPT ![Key] = Object(Body, ContentType)]

\* The bucket after s3_client.copy_object(CopySource, Key) returned.
copy_object(bucket, CopySource, Key) ==
    [bucket EXCEPT ![Key] = bucket[CopySource]]

\* The bucket after s3_client.delete_object(Key) returned.
delete_object(bucket, Key) ==
    [bucket EXCEPT ![Key] = NoObject]

\* What earlier invocations may have left in the bucket.
EarlierObject == Object(<<"z">>, "image/jpeg")
InitialBuckets ==
    {[k \in Keys |-> NoObject],
     [k \in Keys |-> IF k = <<"uploads", "/">> \o EarlierId THEN EarlierObject ELSE NoObject],
     [k \in Keys |-> IF k = <<"safe", "/">> \o EarlierId THEN EarlierObject ELSE NoObject],
     [k \in Keys |-> IF k = <<"nsfw", "/">> \o EarlierId THEN EarlierObject ELSE NoObject]}

\* ------------------------------------------------------------- the state
VARIABLES
    pc,        \* per invocation: "idle", the external call it is about to make, or "done"
    event,     \* per invocation: the event it was invoked with
    environ,   \* per invocation: os.environ.get('BUCKET_NAME') of its container
    frame,     \* per invocation: the locals of lambda_handler
    response,  \* per invocation: what lambda_handler returned
    storage,   \* the bucket: key -> object
    calls      \* per invocation: the external calls it issued, in order, with their outcome

vars == <<pc, event, environ, frame, response, storage, calls>>

\* The invocations of the sequential specification: one.
Invocations == {1}

NoEvent == [headers |-> HeadersMissing, body |-> Unbound, isBase64Encoded |-> FALSE]

InitOver(I) ==
    /\ pc = [r \in I |-> "idle"]
    /\ event = [r \in I |-> NoEvent]
    /\ environ = [r \in I |-> Unbound]
    /\ frame = [r \in I |-> Frame0]
    /\ response = [r \in I |-> NoResponse]
    /\ storage \in InitialBuckets
    /\ calls = [r \in I |-> <<>>]

Init == InitOver(Invocations)

\* Faulty variant: the identifier generator does not avoid identifiers already
\* drawn.
UsedUuids_None == {}

\* The uuids other invocations already drew: uuid4 does not repeat them.
UsedUuids == {frame[q].image_id.val[1] : q \in {q \in DOMAIN pc : frame[q].image_id.tag = "str"}}

\* lambda_handler is invoked with an event of the set, in a container whose
\* BUCKET_NAME is of the set, and runs up to its first external call, or to
\* the except clause.
ReceiveFrom(r, events, environs) ==
    /\ pc[r] = "idle"
    /\ \E ev \in events, en \in environs, uuid \in Uuids \ UsedUuids :
         LET p == Prologue(ev, en, uuid)
         IN /\ event' = [event EXCEPT ![r] = ev]
            /\ environ' = [environ EXCEPT ![r] = en]
            /\ frame' = [frame EXCEPT ![r] = p.frame]
            /\ IF p.error = ""
               THEN /\ pc' = [pc EXCEPT ![r] = "put"]
                    /\ response' = response
               ELSE /\ pc' = [pc EXCEPT ![r] = "done"]
                    /\ response' = [response EXCEPT ![r] = FailureResponse(p.error)]
    /\ UNCHANGED <<storage, calls>>

\* lambda_handler is invoked and runs up to its first external call, or to
\* the except clause.
Receive(r) == ReceiveFrom(r, Events, Environs)

\* One entry of the log of external calls: the operation, its arguments, whether
\* it returned (ok) or raised, and what it returned.
Call(op, f, Key, CopySource, ok, result) ==
    [op |-> op, Bucket |-> f.bucket_name.val, Key |-> Key, CopySource |-> CopySource,
     ok |-> ok, result |-> result]

\* An object is stored under the key.
Exists(Key) == Key \in DOMAIN storage /\ storage[Key].exists

\* An external call of invocation r returned: control goes on to the next
\* statement, which after the last call is the return of lines 122-137.
Returned(r, stage, call, f) ==
    /\ calls' = [calls EXCEPT ![r] = Append(@, call)]
    /\ frame' = [frame EXCEPT ![r] = f]
    /\ pc' = [pc EXCEPT ![r] = NextStep(stage)]
    /\ response' = IF NextStep(stage) = "done"
                   THEN [response EXCEPT ![r] = SuccessResponse(f)]
                   ELSE response
    /\ UNCHANGED <<event, environ>>

\* An external call of invocation r raised, leaving the bucket as it was: in
\* this faulty variant control goes on to the next statement as if the call
\* had returned.
Failed_Swallowed(r, stage, call, error) ==
    /\ calls' = [calls EXCEPT ![r] = Append(@, call)]
    /\ pc' = [pc EXCEPT ![r] = NextStep(stage)]
    /\ response' = IF NextStep(stage) = "done"
                   THEN [response EXCEPT ![r] = FailureResponse(error)]
                   ELSE response
    /\ UNCHANGED <<event, environ, frame, storage>>

\* Faulty variant: the except clause cleans up by deleting the staged object.
Failed_CleansUp(r, stage, call, error) ==
    /\ calls' = [calls EXCEPT ![r] = Append(@, call)]
    /\ pc' = [pc EXCEPT ![r] = "done"]
    /\ response' = [response EXCEPT ![r] = FailureResponse(error)]
    /\ storage' = delete_object(storage, frame[r].temp_key.val)
    /\ UNCHANGED <<event, environ, frame>>

\* Faulty variant: the except clause rolls back by deleting the object under
\* the final key, when one was computed.
Failed_RollsBack(r, stage, call, error) ==
    /\ calls' = [calls EXCEPT ![r] = Append(@, call)]
    /\ pc' = [pc EXCEPT ![r] = "done"]
    /\ response' = [response EXCEPT ![r] = FailureResponse(error)]
    /\ storage' = IF frame[r].final_key.tag = "str"
                  THEN delete_object(storage, frame[r].final_key.val)
                  ELSE storage
    /\ UNCHANGED <<event, environ, frame>>

\* An external call of invocation r raised, leaving the bucket as it was:
\* control goes to the except clause of line 139, which returns the failure
\* response.
Failed(r, stage, call, error) ==
    /\ calls' = [calls EXCEPT ![r] = Append(@, call)]
    /\ pc' = [pc EXCEPT ![r] = "done"]
    /\ response' = [response EXCEPT ![r] = FailureResponse(error)]
    /\ UNCHANGED <<event, environ, frame, storage>>

\* Lines 85-90.
PutObjectOk(r) ==
    /\ pc[r] = "put"
    /\ LET f == frame[r]
       IN /\ storage' = put_object(storage, f.temp_key.val, f.image_data.val, "image/jpeg")
          /\ Returned(r, "put", Call("put_object", f, f.temp_key.val, <<>>, TRUE, <<>>), f)

PutObjectFail(r) ==
    /\ pc[r] = "put"
    /\ Failed(r, "put",
              Call("put_object", frame[r], frame[r].temp_key.val, <<>>, FALSE, <<>>),
              "put_object failed")

\* Lines 95-108: the classifier reads the staged object by reference, so it
\* returns only when that object exists; what it returns is one of the lists.
DetectFrom(r, lists) ==
    /\ pc[r] = "classify"
    /\ Exists(frame[r].temp_key.val)
    /\ \E moderation_labels \in lists :
         LET labels == LabelNamesOf(moderation_labels)
             nsfw_detected == NsfwDetected(labels)
             f == [frame[r] EXCEPT
                     !.labels = List(labels),
                     !.nsfw_detected = Bool(nsfw_detected),
                     !.final_key = Str(FinalKey(nsfw_detected, frame[r].image_id.val))]
         IN Returned(r, "classify",
                     Call("detect_moderation_labels", f, f.temp_key.val, <<>>, TRUE,
                          moderation_labels), f)
    /\ UNCHANGED storage

DetectModerationLabelsOk(r) == DetectFrom(r, ModerationLabelLists)

DetectModerationLabelsFail(r) ==
    /\ pc[r] = "classify"
    /\ Failed(r, "classify",
              Call("detect_moderation_labels", frame[r], frame[r].temp_key.val, <<>>,
                   FALSE, <<>>),
              "detect_moderation_labels failed")

\* Lines 111-115: the copy returns only when its source exists.
CopyObjectOk(r) ==
    /\ pc[r] = "copy"
    /\ Exists(frame[r].temp_key.val)
    /\ LET f == frame[r]
       IN /\ storage' = copy_object(storage, f.temp_key.val, f.final_key.val)
          /\ Returned(r, "copy",
                      Call("copy_object", f, f.final_key.val, f.temp_key.val, TRUE, <<>>), f)

CopyObjectFail(r) ==
    /\ pc[r] = "copy"
    /\ Failed(r, "copy",
              Call("copy_object", frame[r], frame[r].final_key.val,
                   frame[r].temp_key.val, FALSE, <<>>),
              "copy_object failed")

\* Faulty variant: deletes the object under the final key.
DeleteTarget_Final(f) == f.final_key.val

\* The Key argument of line 118.
DeleteTarget(f) == f.temp_key.val

\* Line 118, and on its return lines 120-137.
DeleteObjectOk(r) ==
    /\ pc[r] = "delete"
    /\ LET f == frame[r]
       IN /\ storage' = delete_object(storage, DeleteTarget(f))
          /\ Returned(r, "delete",
                      Call("delete_object", f, DeleteTarget(f), <<>>, TRUE, <<>>), f)

DeleteObjectFail(r) ==
    /\ pc[r] = "delete"
    /\ Failed(r, "delete",
              Call("delete_object", frame[r], DeleteTarget(frame[r]), <<>>, FALSE, <<>>),
              "delete_object failed")

\* Any step of invocation r.
Step(r) ==
    \/ Receive(r)
    \/ PutObjectOk(r)
    \/ PutObjectFail(r)
    \/ DetectModerationLabelsOk(r)
    \/ DetectModerationLabelsFail(r)
    \/ CopyObjectOk(r)
    \/ CopyObjectFail(r)
    \/ DeleteObjectOk(r)
    \/ DeleteObjectFail(r)

Next ==
    \/ \E r \in DOMAIN pc : Receive(r)
    \/ \E r \in DOMAIN pc : PutObjectOk(r)
    \/ \E r \in DOMAIN pc : PutObjectFail(r)
    \/ \E r \in DOMAIN pc : DetectModerationLabelsOk(r)
    \/ \E r \in DOMAIN pc : DetectModerationLabelsFail(r)
    \/ \E r \in DOMAIN pc : CopyObjectOk(r)
    \/ \E r \in DOMAIN pc : CopyObjectFail(r)
    \/ \E r \in DOMAIN pc : DeleteObjectOk(r)
    \/ \E r \in DOMAIN pc : DeleteObjectFail(r)

Spec == Init /\ [][Next]_vars

\* ------------------------------------------- concurrent invocations
\* The number of invocations that run concurrently against the bucket.
NumConcurrent == 2

\* The requests of the concurrent invocations: two uploads with different
\* payloads, and a form without a file.
ConcurrentEvents ==
    {[headers |-> Headers(Str(CtPlain), None), body |-> Str(FileBody),
      isBase64Encoded |-> FALSE],
     [headers |-> Headers(None, Str(CtQuoted)), body |-> Str(NonAsciiBody),
      isBase64Encoded |-> FALSE],
     [headers |-> Headers(Str(CtPlain), None), body |-> Str(FieldBody),
      isBase64Encoded |-> FALSE]}

\* What the classifier returns to them: nothing, or one label.
ConcurrentLabelLists ==
    {l \in ModerationLabelLists :
        Len(l) <= 1 /\ \A i \in 1..Len(l) : l[i] = [Name |-> "Violence", Confidence |-> 100]}

\* They start on a bucket that is empty or holds one staged object that an
\* earlier invocation left behind.
ConcurrentInit ==
    /\ InitOver(1..NumConcurrent)
    /\ \A k \in DOMAIN storage : Exists(k) => k[1] = "uploads"

ConcurrentReceive(r) == ReceiveFrom(r, ConcurrentEvents, {Str(<<"pixcan-bucket">>)})

ConcurrentDetect(r) == DetectFrom(r, ConcurrentLabelLists)

\* The host interleaves the steps of the invocations in any order.
ConcurrentNext ==
    \/ \E r \in DOMAIN pc : ConcurrentReceive(r)
    \/ \E r \in DOMAIN pc : PutObjectOk(r)
    \/ \E r \in DOMAIN pc : PutObjectFail(r)
    \/ \E r \in DOMAIN pc : ConcurrentDetect(r)
    \/ \E r \in DOMAIN pc : DetectModerationLabelsFail(r)
    \/ \E r \in DOMAIN pc : CopyObjectOk(r)
    \/ \E r \in DOMAIN pc : CopyObjectFail(r)
    \/ \E r \in DOMAIN pc : DeleteObjectOk(r)
    \/ \E r \in DOMAIN pc : DeleteObjectFail(r)

ConcurrentSpec == ConcurrentInit /\ [][ConcurrentNext]_vars

\* ------------------------------------------------- the parser's inputs
\* A form has at most MaxParts parts; a boundary parameter value has at most
\* MaxTokenLen characters.
MaxParts == 2
MaxTokenLen == 3

\* Header blocks of a part: a file part, a form field, a form field whose
\* name is the word filename, and a file part whose header name is lower case.
HdrFile ==
    <<"Content-Disposition", ":", " ", "form-data", ";", " ", "filename", "=", "a.jpg">>
HdrField ==
    <<"Content-Disposition", ":", " ", "form-data", ";", " ", "name", "=", "note">>
HdrFieldNamedFilename ==
    <<"Content-Disposition", ":", " ", "form-data", ";", " ", "name", "=", "filename">>
HdrLowerFile ==
    <<"content-disposition", ":", " ", "form-data", ";", " ", "filename", "=", "a.jpg">>

\* A part of a form: its header block, whether the blank line that separates
\* the headers from the payload is there, and its payload.
Part(headers, separated, payload) ==
    [headers |-> headers, separated |-> separated, payload |-> payload]

\* The parts forms are made of.  Their payloads differ, so that a payload
\* tells which part it was taken from.
PartSet ==
    {Part(HdrFile, TRUE, <<"a", "b">>),
     Part(HdrFile, TRUE, <<"c", CR, LF>>),
     Part(HdrFile, TRUE, <<>>),
     Part(HdrFile, FALSE, <<"d">>),
     Part(HdrField, TRUE, <<"e">>),
     Part(HdrField, TRUE, <<"my", "filename", ".txt">>),
     Part(HdrFieldNamedFilename, TRUE, <<"f">>),
     Part(HdrLowerFile, TRUE, <<"g">>)}

Forms == UNION {[1..n -> PartSet] : n \in 0..MaxParts}

\* What may precede the first delimiter: nothing, a line of text, or text
\* that reads like a part.
PreambleSet ==
    {<<>>,
     <<"This is a multipart message", CR, LF>>,
     <<"Content-Disposition", ":", " ", "filename", CR, LF, CR, LF, "h", CR, LF>>}

Layouts == [preamble : PreambleSet, parts : Forms]

\* The bytes of a part between two delimiters.
PartBytes(p) ==
    CRLF \o p.headers \o CRLF \o (IF p.separated THEN CRLF ELSE <<>>)
         \o p.payload \o CRLF

\* The multipart body of a layout under the boundary x.
BuildBody(layout) ==
    layout.preamble
      \o Concat([i \in 1..Len(layout.parts) |->
                    <<"-", "-", "x">> \o PartBytes(layout.parts[i])])
      \o <<"-", "-", "x", "-", "-">> \o CRLF

BodyOf == [l \in Layouts |-> BuildBody(l)]

\* Boundary parameter values: the strings of quote characters and x.
RECURSIVE TokensUpTo(_)
TokensUpTo(n) ==
    IF n = 0 THEN {<<>>}
    ELSE LET shorter == TokensUpTo(n - 1)
         IN shorter \cup {Append(t, c) : t \in shorter, c \in {"\"", "x"}}

\* Content-Type values: every boundary parameter value, and headers with two
\* boundary parameters, with spaces around the segment, with an = sign in the
\* value, and without a boundary parameter.
ParseContentTypes ==
    {<<"multipart/form-data", ";", " ", "boundary", "=">> \o t :
        t \in TokensUpTo(MaxTokenLen)}
    \cup {<<"multipart/form-data", ";", "boundary", "=", "y", ";", " ", "boundary", "=", "x">>,
          <<"multipart/form-data", ";", " ", "charset", "=", "u", ";", " ", " ",
            "boundary", "=", "x", " ">>,
          <<"multipart/form-data", ";", " ", "boundary", "=", "x", "=", "x">>,
          <<"multipart/form-data", ";", " ", "Boundary", "=", "x">>,
          CtCharsetOnly, CtNoBoundary}

\* The requests the parser is exercised with: every layout under the boundary
\* x, and every Content-Type value with one body.
ParseEvents ==
    {[headers |-> Headers(Str(CtPlain), None), body |-> Str(BodyOf[l]),
      isBase64Encoded |-> FALSE] : l \in Layouts}
    \cup {[headers |-> Headers(Str(ct), None), body |-> Str(FileBody),
           isBase64Encoded |-> FALSE] : ct \in ParseContentTypes}

\* The invocation starts on an empty bucket.
ParseInit ==
    /\ InitOver(Invocations)
    /\ \A k \in DOMAIN storage : ~Exists(k)

\* lambda_handler is invoked with a request of ParseEvents and runs through
\* parse_multipart_form_data, up to its first external call or to the except
\* clause.
ParseReceive(r) == ReceiveFrom(r, ParseEvents, {Str(<<"pixcan-bucket">>)})

ParseNext ==
    \/ \E r \in DOMAIN pc : ParseReceive(r)

ParseSpec == ParseInit /\ [][ParseNext]_vars

\* =========================================================== properties
\* Helpers of the properties.
Runs == DOMAIN pc
Started(r) == pc[r] # "idle"
Succeeded(r) == pc[r] = "done" /\ response[r].statusCode = 200
StagedKeyOf(image_id) == <<"uploads", "/">> \o image_id
Holds(Key, bytes) == Exists(Key) /\ storage[Key].Body = bytes
CallOrder == <<"put_object", "detect_moderation_labels", "copy_object", "delete_object">>
SuccessFields == {"file_name", "nsfw_detected", "labels", "final_location"}
\* The i-th call of r is the operation op and returned.
ReturnedAt(r, i, op) == i \in 1..Len(calls[r]) /\ calls[r][i].op = op /\ calls[r][i].ok
\* The bucket holds nothing but what earlier invocations left.
Untouched == storage \in InitialBuckets
IsFailure(resp) ==
    /\ resp.statusCode = 500
    /\ DOMAIN resp.body = {"error", "message"}
    /\ resp.body.message = "Failed to process image"

\* C1: a delete_object of the staged key is issued only after a copy_object
\* from the staged key to the final key has returned, and from the moment
\* put_object has returned an object holding the uploaded bytes is stored
\* under the staged key or under the final key.
C1_DeleteOnlyAfterCopy ==
    \A r \in Runs :
      /\ \A i \in 1..Len(calls[r]) :
            calls[r][i].op = "delete_object" =>
               /\ calls[r][i].Key = StagedKeyOf(frame[r].image_id.val)
               /\ \E j \in 1..(i - 1) :
                     /\ ReturnedAt(r, j, "copy_object")
                     /\ calls[r][j].CopySource = calls[r][i].Key
                     /\ calls[r][j].Key = frame[r].final_key.val
      /\ (\E i \in 1..Len(calls[r]) : ReturnedAt(r, i, "put_object")) =>
            \/ Holds(StagedKeyOf(frame[r].image_id.val), frame[r].image_data.val)
            \/ /\ frame[r].final_key.tag = "str"
               /\ Holds(frame[r].final_key.val, frame[r].image_data.val)

\* C1 witness: the delete was issued and returned, and the final key holds
\* the uploaded bytes while the staged key holds nothing.
C1_Witness ==
    \E r \in Runs :
      /\ ReturnedAt(r, 4, "delete_object")
      /\ ~Exists(StagedKeyOf(frame[r].image_id.val))
      /\ Holds(frame[r].final_key.val, frame[r].image_data.val)

\* C2: when the success response is returned, nothing is stored under
\* uploads/<id> and the final key holds exactly the extracted file payload.
C2_SuccessPostcondition ==
    \A r \in Runs :
      Succeeded(r) =>
         /\ ~Exists(StagedKeyOf(frame[r].image_id.val))
         /\ Holds(frame[r].final_key.val, frame[r].image_data.val)

\* C2 witness: a successful run whose payload came out of a base64 body.
C2_Witness ==
    \E r \in Runs :
      /\ Succeeded(r)
      /\ event[r].isBase64Encoded
      /\ storage[frame[r].final_key.val].Body = <<"a", "b">>

\* C3: after a successful run the final key is under nsfw/ exactly when the
\* classifier returned at least one label, else under safe/, and it is under
\* exactly one of the two.
C3_PartitionByLabels ==
    \A r \in Runs :
      Succeeded(r) =>
         LET key == frame[r].final_key.val
             flagged == StartsWith(key, <<"nsfw", "/">>)
             clear == StartsWith(key, <<"safe", "/">>)
         IN /\ flagged <=> (calls[r][2].result # <<>>)
            /\ clear <=> (calls[r][2].result = <<>>)
            /\ flagged # clear
            /\ response[r].body.final_location = key

\* C3 witness: a successful run for which the classifier returned two labels.
C3_Witness ==
    \E r \in Runs :
      /\ Succeeded(r)
      /\ Len(calls[r][2].result) = 2
      /\ StartsWith(frame[r].final_key.val, <<"nsfw", "/">>)

\* C4: an object is stored under nsfw/ or safe/ for an identifier of this
\* behaviour only if the classifier call on that identifier's staged object
\* has returned, and no copy_object is issued before that.
C4_NoUnmoderatedPlacement ==
    /\ \A k \in DOMAIN storage :
          (k[1] \in {"nsfw", "safe"} /\ Exists(k) /\ SubSeq(k, 3, Len(k)) # EarlierId) =>
             \E r \in Runs : \E i \in 1..Len(calls[r]) :
                /\ ReturnedAt(r, i, "detect_moderation_labels")
                /\ calls[r][i].Key = StagedKeyOf(SubSeq(k, 3, Len(k)))
    /\ \A r \in Runs : \A i \in 1..Len(calls[r]) :
          calls[r][i].op = "copy_object" =>
             \E j \in 1..(i - 1) : ReturnedAt(r, j, "detect_moderation_labels")

\* C4 witness: an object is stored in a final partition while classification
\* has returned and the staged copy is still there.
C4_Witness ==
    \E r \in Runs :
      /\ pc[r] = "delete"
      /\ Exists(frame[r].final_key.val)
      /\ frame[r].final_key.val[1] \in {"nsfw", "safe"}

\* C5: the external calls of an invocation are a prefix of put, classify,
\* copy, delete, each issued once and only after the one before returned; the
\* position of the invocation matches the calls that returned; and a call that
\* raised is the last one, after which the failure response, with none of the
\* success fields, is returned.
C5_StrictSequence ==
    \A r \in Runs :
      LET n == Len(calls[r])
      IN /\ n <= 4
         /\ \A i \in 1..n :
               /\ calls[r][i].op = CallOrder[i]
               /\ i < n => calls[r][i].ok
         /\ pc[r] \in {"idle", "put"} => n = 0
         /\ pc[r] = "classify" => n = 1 /\ calls[r][1].ok
         /\ pc[r] = "copy" => n = 2 /\ calls[r][2].ok
         /\ pc[r] = "delete" => n = 3 /\ calls[r][3].ok
         /\ (n > 0 /\ ~calls[r][n].ok) =>
               /\ pc[r] = "done"
               /\ IsFailure(response[r])
               /\ DOMAIN response[r].body \cap SuccessFields = {}
         /\ Succeeded(r) => n = 4 /\ calls[r][4].ok

\* C5 witness: the copy raised after put and classify returned, and the
\* invocation ended there.
C5_Witness ==
    \E r \in Runs :
      /\ Len(calls[r]) = 3
      /\ ~calls[r][3].ok
      /\ pc[r] = "done"

\* The content type has a segment that, stripped, begins with boundary=.
HasBoundarySegment(content_type) ==
    LET segments == Split(content_type, <<";">>)
    IN \E i \in 1..Len(segments) :
          StartsWith(Strip(segments[i], Whitespace), <<"boundary", "=">>)

\* The first segment that begins with boundary= names a token: something
\* other than quote characters follows the = sign.
HasBoundaryToken(content_type) ==
    LET segments == Split(content_type, <<";">>)
        stripped == [i \in 1..Len(segments) |-> Strip(segments[i], Whitespace)]
        hits == {i \in 1..Len(segments) : StartsWith(stripped[i], <<"boundary", "=">>)}
    IN /\ hits # {}
       /\ LET first == CHOOSE i \in hits : \A j \in hits : i <= j
          IN \E k \in 3..Len(stripped[first]) : stripped[first][k] # "\""

NoFileFound == "No file found in multipart/form-data payload"
HeaderErrors == {"No boundary found in Content-Type header", "Missing Content-Type header"}

\* C6: when the extractor returned None, the invocation fails with the
\* no-file-found error, has issued no external call, and the bucket is as it
\* was.
C6_AbsentMakesNoCalls ==
    \A r \in Runs :
      frame[r].image_data.tag = "None" =>
         /\ pc[r] = "done"
         /\ IsFailure(response[r])
         /\ response[r].body.error = NoFileFound
         /\ calls[r] = <<>>
         /\ Untouched

\* C6 witness: a multipart body with a boundary and a form field but no
\* file part was parsed to None.
C6_Witness ==
    \E r \in Runs :
      /\ frame[r].image_data.tag = "None"
      /\ frame[r].body.val = FieldBody
      /\ HasBoundaryToken(frame[r].content_type.val)

\* C7 (as claimed): when the content type that was parsed has no segment
\* beginning with boundary=, the failure response carries an error about the
\* header, not the no-file-found error.
C7_MalformedHeaderReported ==
    \A r \in Runs :
      (/\ frame[r].image_data.tag # "unbound"
       /\ ~HasBoundarySegment(frame[r].content_type.val)) =>
         /\ IsFailure(response[r])
         /\ response[r].body.error \in HeaderErrors
         /\ response[r].body.error # NoFileFound

\* The request is malformed: no Content-Type under either spelling, a
\* Content-Type without a boundary token, or a base64 body that does not
\* decode.
HeaderMissing(ev) ==
    \/ ev.headers.tag = "missing"
    \/ ~Truthy(ev.headers.lower) /\ ~Truthy(ev.headers.canon)
ContentTypeOf(ev) ==
    IF Truthy(ev.headers.lower) THEN ev.headers.lower.val ELSE ev.headers.canon.val
BoundaryMissing(ev) ==
    ~HeaderMissing(ev) /\ ~HasBoundaryToken(ContentTypeOf(ev))
DecodeFails(ev) ==
    ev.isBase64Encoded /\ (ev.body.tag = "None" \/ ~B64Valid(ev.body.val))
Malformed(ev) == HeaderMissing(ev) \/ BoundaryMissing(ev) \/ DecodeFails(ev)

\* C8: an invocation with a malformed request ends in the failure response
\* without any external call and with the bucket as it was; with the boundary
\* missing, every body that reaches the parser gets the same response.
C8_MalformedMakesNoCalls ==
    \A r \in Runs :
      (Started(r) /\ Malformed(event[r])) =>
         /\ pc[r] = "done"
         /\ IsFailure(response[r])
         /\ calls[r] = <<>>
         /\ Untouched
         /\ (BoundaryMissing(event[r]) /\ frame[r].image_data.tag # "unbound") =>
               response[r] = FailureResponse(NoFileFound)

\* C8 witness: a request whose Content-Type has no boundary and whose body
\* holds a file part, with the bucket configured, has ended.
C8_Witness ==
    \E r \in Runs :
      /\ pc[r] = "done"
      /\ Truthy(environ[r])
      /\ BoundaryMissing(event[r])
      /\ event[r].body = Str(FileBody)

\* C9: with BUCKET_NAME unset or empty the invocation returns the failure
\* response with the header not read, the body not decoded, the parser not
\* called and no external call issued, whatever the request.
C9_ConfigCheckedFirst ==
    \A r \in Runs :
      (Started(r) /\ ~Truthy(environ[r])) =>
         /\ pc[r] = "done"
         /\ response[r] = FailureResponse("BUCKET_NAME environment variable not set")
         /\ frame[r].content_type.tag = "unbound"
         /\ frame[r].body.tag = "unbound"
         /\ frame[r].image_data.tag = "unbound"
         /\ calls[r] = <<>>
         /\ Untouched

\* C9 witness: a request that is well formed and holds a file ended with
\* BUCKET_NAME empty.
C9_Witness ==
    \E r \in Runs :
      /\ pc[r] = "done"
      /\ environ[r] = Str(<<>>)
      /\ ~Malformed(event[r])
      /\ event[r].body = Str(FileBody)

\* C10: an invocation that has not ended has returned nothing and can take a
\* step; one that has ended returned either the success response, and then
\* all four external calls returned, or the uniform failure response, and then
\* some step raised.
C10_OneResponse ==
    \A r \in Runs :
      /\ pc[r] # "done" => response[r] = NoResponse /\ ENABLED Step(r)
      /\ pc[r] = "done" =>
            /\ response[r].statusCode \in {200, 500}
            /\ response[r].statusCode = 200 =>
                  /\ DOMAIN response[r].body = SuccessFields \cup {"message"}
                  /\ Len(calls[r]) = 4
                  /\ \A i \in 1..4 : ReturnedAt(r, i, CallOrder[i])
            /\ response[r].statusCode = 500 =>
                  /\ IsFailure(response[r])
                  /\ \/ Len(calls[r]) = 0
                     \/ ~calls[r][Len(calls[r])].ok

\* C10 witness: the last of the four calls raised and the failure response
\* was returned.
C10_Witness ==
    \E r \in Runs :
      /\ pc[r] = "done"
      /\ Len(calls[r]) = 4
      /\ ~calls[r][4].ok
      /\ response[r].statusCode = 500

\* The keys of the two final partitions for an identifier.
FinalKeysOf(image_id) == {<<"nsfw", "/">> \o image_id, <<"safe", "/">> \o image_id}

\* C11: when put_object returned and then the classifier or the copy raised,
\* no delete was issued, the staged object still holds the uploaded bytes,
\* nothing is stored under either final key of the identifier, and the
\* failure response was returned.
C11_StagedObjectLeftBehind ==
    \A r \in Runs :
      LET n == Len(calls[r])
      IN (/\ ReturnedAt(r, 1, "put_object")
          /\ n \in {2, 3}
          /\ ~calls[r][n].ok) =>
            /\ calls[r][n].op \in {"detect_moderation_labels", "copy_object"}
            /\ \A i \in 1..n : calls[r][i].op # "delete_object"
            /\ Holds(StagedKeyOf(frame[r].image_id.val), frame[r].image_data.val)
            /\ \A k \in FinalKeysOf(frame[r].image_id.val) : ~Exists(k)
            /\ pc[r] = "done"
            /\ IsFailure(response[r])

\* C11 witness: the copy to a final key under nsfw/ raised.
C11_Witness ==
    \E r \in Runs :
      /\ Len(calls[r]) = 3
      /\ calls[r][3].op = "copy_object"
      /\ ~calls[r][3].ok
      /\ calls[r][3].Key[1] = "nsfw"
      /\ Exists(StagedKeyOf(frame[r].image_id.val))

\* C14: the success response reports what happened: file_name is the drawn
\* identifier with .jpg appended and names the staged key that was written,
\* labels are the names the classifier returned, in its order, nsfw_detected
\* says whether there are any, and final_location is the destination of the
\* copy, under which the object is stored.
C14_ResponseReportsStorage ==
    \A r \in Runs :
      Succeeded(r) =>
         LET b == response[r].body
             returned == calls[r][2].result
         IN /\ Len(b.file_name) = 2
            /\ b.file_name[1] \in Uuids
            /\ b.file_name[2] = ".jpg"
            /\ calls[r][1].Key = <<"uploads", "/">> \o b.file_name
            /\ Len(b.labels) = Len(returned)
            /\ \A i \in 1..Len(returned) : b.labels[i] = returned[i].Name
            /\ b.nsfw_detected <=> (Len(b.labels) > 0)
            /\ b.final_location = calls[r][3].Key
            /\ Exists(b.final_location)
            /\ SubSeq(b.final_location, 3, 4) = b.file_name

\* C14 witness: a success response that lists two different labels, Violence
\* first.
C14_Witness ==
    \E r \in Runs :
      /\ Succeeded(r)
      /\ response[r].body.labels = <<"Violence", "Explicit Nudity">>
      /\ response[r].body.nsfw_detected

\* C20: when put, classify and copy returned and the delete raised, the
\* failure response, without file_name or final_location, was returned, the
\* staged key and the final key both hold the uploaded bytes, and the delete
\* was the fourth and last call: no further delete of either key was issued.
C20_DeleteFailureKeepsBoth ==
    \A r \in Runs :
      (Len(calls[r]) >= 4 /\ ~calls[r][4].ok) =>
         /\ \A i \in 1..3 : ReturnedAt(r, i, CallOrder[i])
         /\ calls[r][4].op = "delete_object"
         /\ Len(calls[r]) = 4
         /\ pc[r] = "done"
         /\ IsFailure(response[r])
         /\ DOMAIN response[r].body \cap {"file_name", "final_location"} = {}
         /\ Holds(StagedKeyOf(frame[r].image_id.val), frame[r].image_data.val)
         /\ Holds(calls[r][3].Key, frame[r].image_data.val)

\* C20 witness: the delete raised after a copy to safe/.
C20_Witness ==
    \E r \in Runs :
      /\ Len(calls[r]) = 4
      /\ ~calls[r][4].ok
      /\ calls[r][3].Key[1] = "safe"
      /\ pc[r] = "done"

\* C19: when the parser selected a file part and its payload is empty, the
\* invocation returns the same no-file-found failure response as for None,
\* issues no external call and leaves the bucket as it was.
C19_EmptyFileIsNoFile ==
    \A r \in Runs :
      frame[r].image_data = Bytes(<<>>) =>
         /\ pc[r] = "done"
         /\ response[r] = FailureResponse(NoFileFound)
         /\ calls[r] = <<>>
         /\ Untouched
         /\ \A k \in DOMAIN storage : Exists(k) => k[3] = EarlierId[1]

\* C19 witness: the file part of the body has no byte at all after its header
\* separator, and the parser returned the empty payload.
C19_Witness ==
    \E r \in Runs :
      /\ frame[r].image_data = Bytes(<<>>)
      /\ frame[r].body.val = BareEmptyFileBody
      /\ pc[r] = "done"

\* The keys derived from an identifier.
KeysOfId(image_id) == {<<p, "/">> \o image_id : p \in Prefixes}
\* The keys an external call names.
KeysOfCall(c) == {c.Key} \cup (IF c.op = "copy_object" THEN {c.CopySource} ELSE {})

\* C15: with several invocations interleaved on one bucket, the identifiers
\* drawn are distinct, every key an invocation puts to, copies to or from, or
\* deletes is derived from its own identifier and from no other invocation's,
\* and an invocation that succeeded finds nothing under its staged key and its
\* own uploaded bytes under its final key.
C15_NoCrossInvocationKeys ==
    \A r \in Runs :
      /\ \A i \in 1..Len(calls[r]) :
            /\ KeysOfCall(calls[r][i]) \subseteq KeysOfId(frame[r].image_id.val)
            /\ \A q \in Runs \ {r} :
                  frame[q].image_id.tag = "str" =>
                     KeysOfCall(calls[r][i]) \cap KeysOfId(frame[q].image_id.val) = {}
      /\ Succeeded(r) =>
            /\ ~Exists(StagedKeyOf(frame[r].image_id.val))
            /\ Holds(frame[r].final_key.val, frame[r].image_data.val)

\* C15 witness: two invocations with different payloads are in flight at
\* once, one about to copy and one about to delete, and a third party of the
\* bucket, the copy of the second, already holds its own bytes.
C15_Witness ==
    \E r \in Runs : \E q \in Runs \ {r} :
      /\ pc[r] = "copy"
      /\ pc[q] = "delete"
      /\ frame[r].image_data # frame[q].image_data
      /\ Holds(frame[q].final_key.val, frame[q].image_data.val)
      /\ Holds(StagedKeyOf(frame[r].image_id.val), frame[r].image_data.val)

\* -------------------------------------------------------------------------
\* Helpers of the parser properties.
\* The invocation went through parse_multipart_form_data.
Parsed(r) == frame[r].image_data.tag # "unbound"

\* The layouts that the body of the request was built from.
LayoutsOf(r) ==
    IF event[r].body.tag = "str"
    THEN {l \in Layouts : BodyOf[l] = event[r].body.val}
    ELSE {}

\* The pieces of a layout's body between its delimiters: the preamble, the
\* parts, and what follows the closing delimiter.
PiecesOf(l) ==
    <<l.preamble>> \o [i \in 1..Len(l.parts) |-> PartBytes(l.parts[i])]
                   \o << <<"-", "-">> \o CRLF >>

HasToken(piece, w) == \E i \in 1..Len(piece) : piece[i] = w
SeparatorsOf(piece) ==
    {i \in 1..(Len(piece) - 3) :
        /\ piece[i] = CR /\ piece[i + 1] = LF
        /\ piece[i + 2] = CR /\ piece[i + 3] = LF}

\* The piece has both words and a blank line.
Selectable(piece) ==
    /\ HasToken(piece, "Content-Disposition")
    /\ HasToken(piece, "filename")
    /\ SeparatorsOf(piece) # {}

\* What follows the first blank line of a piece, less one final CRLF.
PayloadOf(piece) ==
    LET i == CHOOSE i \in SeparatorsOf(piece) : \A j \in SeparatorsOf(piece) : i <= j
        rest == SubSeq(piece, i + 4, Len(piece))
        n == Len(rest)
    IN IF n >= 2 /\ rest[n - 1] = CR /\ rest[n] = LF
       THEN SubSeq(rest, 1, n - 2)
       ELSE rest

\* The header block declares a Content-Disposition header, in either case,
\* with a filename attribute.
DeclaresFile(headers) ==
    /\ headers[1] \in {"Content-Disposition", "content-disposition"}
    /\ \E i \in 1..(Len(headers) - 2) :
          headers[i] = " " /\ headers[i + 1] = "filename" /\ headers[i + 2] = "="

FilePartsOf(l) == {i \in 1..Len(l.parts) : DeclaresFile(l.parts[i].headers)}

\* The body begins with its first delimiter and every part has its blank line.
WellFormed(l) ==
    /\ l.preamble = <<>>
    /\ \A i \in 1..Len(l.parts) : l.parts[i].separated

\* C16: the parser returns the payload of the first piece of the body, in
\* body order, that has the words Content-Disposition and filename and a
\* blank line; a piece with both words and no blank line is passed over, the
\* pieces after the selected one do not matter, and with no such piece None is
\* returned.
C16_FirstSeparatedMatch ==
    \A r \in Runs : \A l \in LayoutsOf(r) :
      Parsed(r) =>
        LET pieces == PiecesOf(l)
            hits == {i \in 1..Len(pieces) : Selectable(pieces[i])}
        IN frame[r].image_data =
             IF hits = {} THEN None
             ELSE Bytes(PayloadOf(pieces[CHOOSE i \in hits : \A j \in hits : i <= j]))

\* C16 witness: the first part has both words but no blank line, and the
\* payload of the second part was returned.
C16_Witness ==
    \E r \in Runs : \E l \in LayoutsOf(r) :
      /\ l.preamble = <<>>
      /\ l.parts = <<Part(HdrFile, FALSE, <<"d">>), Part(HdrFile, TRUE, <<"a", "b">>)>>
      /\ frame[r].image_data = Bytes(<<"a", "b">>)

\* C13 (as claimed): for a body that begins with its first delimiter and in
\* which no part declares a Content-Disposition header with a filename
\* attribute, the parser returns None.
C13_NoFilePartIsAbsent ==
    \A r \in Runs : \A l \in LayoutsOf(r) :
      (Parsed(r) /\ l.preamble = <<>> /\ FilePartsOf(l) = {})
         => frame[r].image_data = None

\* C12 (as claimed): for a well-formed body with exactly one part that
\* declares a filename, the parser returns that part's payload.
C12_SingleFilePartReturned ==
    \A r \in Runs : \A l \in LayoutsOf(r) :
      (Parsed(r) /\ WellFormed(l) /\ Cardinality(FilePartsOf(l)) = 1)
         => \A i \in FilePartsOf(l) :
               frame[r].image_data = Bytes(l.parts[i].payload)

\* C17 (as claimed): what precedes the first delimiter never satisfies the
\* selection predicate, and the parser never returns bytes taken from it.
C17_PreambleNeverSelected ==
    \A r \in Runs : \A l \in LayoutsOf(r) :
      Parsed(r) =>
        /\ ~IsFilePart(Head(Split(frame[r].body.val, <<"-", "-", "x">>)))
        /\ ~(/\ SeparatorsOf(l.preamble) # {}
             /\ frame[r].image_data = Bytes(PayloadOf(l.preamble)))

\* The remainder after boundary= of the first segment of the content type
\* that, trimmed, begins with boundary= (such a segment exists).
BoundaryRemainder(content_type) ==
    LET segments == Split(content_type, <<";">>)
        stripped == [i \in 1..Len(segments) |-> Strip(segments[i], Whitespace)]
        hits == {i \in 1..Len(segments) :
                    /\ Len(stripped[i]) >= 2
                    /\ stripped[i][1] = "boundary" /\ stripped[i][2] = "="}
        first == CHOOSE i \in hits : \A j \in hits : i <= j
    IN SubSeq(stripped[first], 3, Len(stripped[first]))

\* s without its leading and trailing quote characters, all of them.
AllQuotesTrimmed(s) ==
    LET inner == {k \in 1..Len(s) : s[k] # "\""}
    IN IF inner = {} THEN <<>>
       ELSE SubSeq(s, CHOOSE k \in inner : \A j \in inner : k <= j,
                      CHOOSE k \in inner : \A j \in inner : k >= j)

\* s without one leading and one trailing quote character, if present.
OneQuoteTrimmed(s) ==
    LET a == IF Len(s) > 0 /\ s[1] = "\"" THEN Tail(s) ELSE s
    IN IF Len(a) > 0 /\ a[Len(a)] = "\"" THEN SubSeq(a, 1, Len(a) - 1) ELSE a

\* The parser gave up on the boundary: it returned None, and the invocation
\* ended in the failure response without an identifier or an external call.
NotProceeded(r) ==
    /\ frame[r].image_data = None
    /\ frame[r].image_id = Unbound
    /\ pc[r] = "done"
    /\ IsFailure(response[r])
    /\ calls[r] = <<>>

\* The parser's boundary is what trim makes of the remainder after boundary=;
\* without a boundary segment, or with an empty token, processing stops.
BoundaryIs(r, trim(_)) ==
    LET content_type == frame[r].content_type.val
    IN IF ~HasBoundarySegment(content_type)
       THEN frame[r].boundary = None /\ NotProceeded(r)
       ELSE LET token == trim(BoundaryRemainder(content_type))
            IN /\ frame[r].boundary = Str(token)
               /\ token = <<>> => NotProceeded(r)

\* C18 (amended): the boundary token is the remainder after boundary= of the
\* first semicolon-separated, whitespace-trimmed segment of the content type
\* that begins with boundary=, with all its leading and all its trailing
\* double-quote characters removed and those inside it kept; with an empty
\* token, or without such a segment, the parser returns None and the
\* invocation ends in the failure response without any external call.
C18_BoundaryToken ==
    \A r \in Runs : Parsed(r) => BoundaryIs(r, AllQuotesTrimmed)

\* C18 witness: a boundary value that begins with two quote characters was
\* parsed to the token without either, and the file part was found with it.
C18_Witness ==
    \E r \in Runs :
      /\ Parsed(r)
      /\ HasBoundarySegment(frame[r].content_type.val)
      /\ BoundaryRemainder(frame[r].content_type.val) = <<"\"", "\"", "x">>
      /\ frame[r].boundary = Str(<<"x">>)
      /\ frame[r].image_data = Bytes(<<"a", "b">>)

\* C18 (as claimed): exactly one leading and one trailing double-quote
\* character is removed, further quote characters being kept in the token.
C18_OneQuoteEachSide ==
    \A r \in Runs : Parsed(r) => BoundaryIs(r, OneQuoteTrimmed)

====
